---- MODULE Spec2Model ----
(***************************************************************************)
(* A model of the tacanno expense tracker: the SQLite store (db.py), the   *)
(* Gmail sweep (gmail_agent.py), the agent tools (expense_agent.py) and    *)
(* the month arithmetic of reports.py.                                     *)
(*                                                                         *)
(* Conventions.  Amounts are integer cents.  A date "YYYY-MM-DD" is the    *)
(* tuple <<y, m, d>>, compared lexicographically as SQLite compares the    *)
(* TEXT column; an ISO timestamp is <<y, m, d, h>>.  SQL NULL / Python     *)
(* None is NULL for text, NoDate for dates and NoAmount for amounts.       *)
(***************************************************************************)
EXTENDS Integers, Sequences, FiniteSets, TLC

NULL == "NULL"
NoDate == <<>>
NoAmount == 0 - 1

(* ---------------------------- bounds ----------------------------------- *)
\* number of sweep invocations (pull_and_process_emails calls)
MaxSweeps == 2
\* number of rows inserted by direct calls of the store
MaxRows == 3

(* ------------------------ program constants ---------------------------- *)
\* filtered[-10:]
RecentLimit == 10
\* plot_vendor_top(year, month, top_n=10)
DefaultTopN == 10
\* classification.get('confidence', 0) >= 0.7, in tenths
ConfidenceThreshold == 7
\* pull_and_process_emails(max_results: int = 50)
DefaultMaxResults == 50
\* "newer_than:7d"
FirstSweepDays == 7

(* ------------------------------ dates ---------------------------------- *)
IsLeap(y) == (y % 4 = 0 /\ y % 100 # 0) \/ y % 400 = 0

DaysInMonth(y, m) ==
    IF m = 2 THEN (IF IsLeap(y) THEN 28 + 1 ELSE 28)
    ELSE IF m \in {4, 6, 9, 11} THEN 30 ELSE 30 + 1

RECURSIVE DaysBeforeMonth(_, _)
DaysBeforeMonth(y, m) ==
    IF m = 1 THEN 0 ELSE DaysBeforeMonth(y, m - 1) + DaysInMonth(y, m - 1)

\* proleptic day number of a date (date.toordinal up to a fixed offset)
ToOrdinal(d) ==
    LET y == d[1] - 1
    IN  y * 365 + (y \div 4) - (y \div 100) + (y \div 400)
        + DaysBeforeMonth(d[1], d[2]) + d[3]

\* string comparison of two ISO dates
DateLE(a, b) ==
    \/ a[1] < b[1]
    \/ a[1] = b[1] /\ a[2] < b[2]
    \/ a[1] = b[1] /\ a[2] = b[2] /\ a[3] <= b[3]

\* SQL: date BETWEEN start AND end (NULL date: the row is not selected)
Between(d, start, end) == d # NoDate /\ DateLE(start, d) /\ DateLE(d, end)

iso_first_last_of_month(year, month) ==
    <<  <<year, month, 1>>,
        IF month = 12 THEN <<year, 12, 30 + 1>>
        ELSE <<year, month, DaysInMonth(year, month)>>  >>

\* datetime.now(timezone.utc) at the successive instants of a run
Clock == <<  <<2025, 11, 3, 9>>, <<2025, 12, 1, 9>>  >>

DateOf(ts) == <<ts[1], ts[2], ts[3]>>

(* ----------------------------- the mailbox ----------------------------- *)
\* The messages of the Gmail account, newest first (messages.list order).
Inbox == <<  [id |-> "m2", sender |-> "shop@example.com", received |-> <<2025, 11, 3>>],
             [id |-> "m1", sender |-> "shop@example.com", received |-> <<2025, 11, 2>>]  >>

MsgIds == {Inbox[k].id : k \in 1..Len(Inbox)}

Msg(id) == CHOOSE m \in {Inbox[k] : k \in 1..Len(Inbox)} : m.id = id

\* expense_data dictionaries the classifier can return
DataFood  == [date |-> <<2025, 11, 2>>, vendor |-> "Chipotle", amount |-> 1250,
              currency |-> "USD", category |-> "Food", notes |-> "order"]
DataNoAmt == [date |-> <<2025, 11, 2>>, vendor |-> "Chipotle", amount |-> NoAmount,
              currency |-> "USD", category |-> "Food", notes |-> "order"]
DataZero  == [date |-> <<2025, 11, 2>>, vendor |-> "Chipotle", amount |-> 0,
              currency |-> "USD", category |-> "Food", notes |-> "order"]
DataBare  == [date |-> NoDate, vendor |-> NULL, amount |-> 999,
              currency |-> NULL, category |-> NULL, notes |-> NULL]

\* the except-branch result of classify_email (API or JSON failure)
ClassificationError == [is_expense |-> FALSE, confidence |-> 0, expense_data |-> <<>>]

\* classify_email results; expense_data is <<>> (None) or <<dict>>; confidence in tenths
Verdicts ==
    {  ClassificationError,
       [is_expense |-> FALSE, confidence |-> 9, expense_data |-> <<DataFood>>],
       [is_expense |-> TRUE,  confidence |-> 6, expense_data |-> <<DataFood>>],
       [is_expense |-> TRUE,  confidence |-> 7, expense_data |-> <<DataFood>>],
       [is_expense |-> TRUE,  confidence |-> 9, expense_data |-> <<DataNoAmt>>],
       [is_expense |-> TRUE,  confidence |-> 9, expense_data |-> <<DataZero>>],
       [is_expense |-> TRUE,  confidence |-> 9, expense_data |-> <<DataBare>>]  }

\* the answers considered for each message: every kind for the newest one
AnswersFor(id) ==
    IF id = "m2" THEN Verdicts
    ELSE {  ClassificationError,
            [is_expense |-> TRUE, confidence |-> 7, expense_data |-> <<DataFood>>]  }

Sweeps == 1..MaxSweeps

VARIABLES
    expenses,       \* table expenses, in rowid order
    budgets,        \* table budgets: category -> amount
    sync_state,     \* table sync_state: <<>> or <<row 1>>
    now,            \* index of the current instant in Clock
    verdict,        \* what classify_email returns for each message
    pc,             \* per sweep: position in pull_and_process_emails
    max_results,    \* per sweep: the max_results argument
    messages,       \* per sweep: ids returned by messages.list
    emails,         \* per sweep: ids fetch_new_emails returned
    i,              \* per sweep: index of the loop in progress
    classification, \* per sweep: result of the last classify_email
    stats,          \* per sweep: the stats dictionary
    raised,         \* per sweep: the exception that left the coroutine
    result,         \* the last direct call of the store: its argument and outcome
    hist            \* per sweep: history of the run (not program state)

vars == <<expenses, budgets, sync_state, now, verdict, pc, max_results, messages,
          emails, i, classification, stats, raised, result, hist>>

storeVars == <<expenses, budgets, sync_state, result>>
sweepVars == <<pc, max_results, messages, emails, i, classification, stats, raised, hist>>

(* ------------------------------ db.py ---------------------------------- *)
EmailIds == {expenses[k].email_id : k \in 1..Len(expenses)} \ {NULL}

RowsWithEmailId(id) == {k \in 1..Len(expenses) : expenses[k].email_id = id}

\* a check that never finds the row
email_already_processed_never(email_id) == FALSE

\* SELECT 1 FROM expenses WHERE email_id = ?
email_already_processed(email_id) == RowsWithEmailId(email_id) # {}

\* float(exp.get("amount") or 0)
FloatOrZero(amount) == IF amount = NoAmount THEN 0 ELSE amount

\* the INSERT with vendor and category bound to each other's column
NewRow_swapped(exp) ==
    [id |-> Len(expenses) + 1, date |-> exp.date, vendor |-> exp.category,
     amount |-> FloatOrZero(exp.amount), currency |-> exp.currency,
     category |-> exp.vendor, source |-> exp.source, notes |-> exp.notes,
     email_id |-> exp.email_id]

\* the row INSERT builds from the dictionary; id is AUTOINCREMENT
NewRow(exp) ==
    [id |-> Len(expenses) + 1, date |-> exp.date, vendor |-> exp.vendor,
     amount |-> FloatOrZero(exp.amount), currency |-> exp.currency,
     category |-> exp.category, source |-> exp.source, notes |-> exp.notes,
     email_id |-> exp.email_id]

\* email_id TEXT UNIQUE: several NULLs are allowed, equal non-NULL values are not
UniqueViolation(exp) == exp.email_id # NULL /\ email_already_processed(exp.email_id)

\* the same table declared without UNIQUE
save_expense_not_unique(exp, storage) ==
    IF storage # "ok" THEN [rows |-> expenses, raised |-> "OperationalError"]
    ELSE [rows |-> Append(expenses, NewRow(exp)), raised |-> "none"]

\* save_expense: the table after the call and the exception it raised.
\* storage is what the database file does: "ok", or "error" (locked, disk, ...).
save_expense(exp, storage) ==
    IF storage # "ok" THEN [rows |-> expenses, raised |-> "OperationalError"]
    ELSE IF UniqueViolation(exp) THEN [rows |-> expenses, raised |-> "IntegrityError"]
    ELSE [rows |-> Append(expenses, NewRow(exp)), raised |-> "none"]

NoResult == [call |-> "none", exp |-> <<>>, raised |-> "none"]

NoTimestamp == <<>>
NoSyncState == [last_sync_timestamp |-> NoTimestamp, last_history_id |-> NULL]

get_sync_state == IF sync_state = <<>> THEN NoSyncState ELSE sync_state[1]

\* the statement as INSERT OR REPLACE, without COALESCE
set_sync_state_replace(timestamp, history_id) ==
    << [last_sync_timestamp |-> timestamp, last_history_id |-> history_id] >>

\* INSERT ... ON CONFLICT(id) DO UPDATE SET x = COALESCE(excluded.x, x)
set_sync_state(timestamp, history_id) ==
    IF sync_state = <<>>
    THEN << [last_sync_timestamp |-> timestamp, last_history_id |-> history_id] >>
    ELSE << [last_sync_timestamp |->
                IF timestamp # NoTimestamp THEN timestamp
                ELSE sync_state[1].last_sync_timestamp,
             last_history_id |->
                IF history_id # NULL THEN history_id
                ELSE sync_state[1].last_history_id] >>

\* rows selected by WHERE date BETWEEN ? AND ?, in rowid order
InRange(start, end) == SelectSeq(expenses, LAMBDA r : Between(r.date, start, end))

RECURSIVE SumAmount(_)
SumAmount(rows) ==
    IF rows = <<>> THEN 0 ELSE rows[1].amount + SumAmount(Tail(rows))

\* a stable ascending sort of a sequence of [key, val] by integer key
RECURSIVE InsertByKey(_, _)
InsertByKey(sorted, x) ==
    IF sorted = <<>> THEN <<x>>
    ELSE IF x.key < sorted[1].key THEN <<x>> \o sorted
    ELSE <<sorted[1]>> \o InsertByKey(Tail(sorted), x)

RECURSIVE SortByKey(_)
SortByKey(seq) ==
    IF seq = <<>> THEN <<>>
    ELSE InsertByKey(SortByKey(SubSeq(seq, 1, Len(seq) - 1)), seq[Len(seq)])

\* the columns get_expenses_between selects
Selected(r) ==
    [id |-> r.id, date |-> r.date, vendor |-> r.vendor, amount |-> r.amount,
     currency |-> r.currency, category |-> r.category, source |-> r.source,
     notes |-> r.notes]

\* SELECT ... WHERE date BETWEEN ? AND ? ORDER BY date ASC
get_expenses_between(start_date, end_date) ==
    LET hits == InRange(start_date, end_date)
        rows == SortByKey([k \in 1..Len(hits) |->
                              [key |-> ToOrdinal(hits[k].date), val |-> hits[k]]])
    IN  [k \in 1..Len(rows) |-> Selected(rows[k].val)]

\* the text values of the model in SQLite's order: NULL first, then BINARY collation
Collation == <<NULL, "", "Cafe", "Chipotle", "Food", "Uncategorized", "food">>

\* SELECT field, SUM(amount), COUNT(*) ... GROUP BY field ORDER BY total DESC:
\* one group per value, NULL a group of its own; groups of equal total are left
\* in the order of their values
GroupsOf(rows, column) ==
    LET keys == {rows[k][column] : k \in 1..Len(rows)}
        group(key) == SelectSeq(rows, LAMBDA r : r[column] = key)
        present == SelectSeq(Collation, LAMBDA key : key \in keys)
        sorted == SortByKey([k \in 1..Len(present) |->
                      [key |-> 0 - SumAmount(group(present[k])), val |-> present[k]]])
    IN  [k \in 1..Len(sorted) |->
            [key |-> sorted[k].val, total |-> SumAmount(group(sorted[k].val)),
             count |-> Len(group(sorted[k].val))]]

\* r[0] or "Uncategorized"
OrUncategorized(text) == IF text = NULL \/ text = "" THEN "Uncategorized" ELSE text

\* the query with WHERE field IS NOT NULL added
aggregate_by_field_not_null(start_date, end_date, field) ==
    LET column == IF field \notin {"category", "vendor"} THEN "category" ELSE field
        rows   == SelectSeq(InRange(start_date, end_date), LAMBDA r : r[column] # NULL)
        groups == GroupsOf(rows, column)
    IN  [k \in 1..Len(groups) |->
            [field |-> OrUncategorized(groups[k].key), total |-> groups[k].total,
             count |-> groups[k].count]]

\* aggregate_by_field: GROUP BY field ORDER BY total DESC, then the labels
aggregate_by_field(start_date, end_date, field) ==
    LET column == IF field \notin {"category", "vendor"} THEN "category" ELSE field
        groups == GroupsOf(InRange(start_date, end_date), column)
    IN  [k \in 1..Len(groups) |->
            [field |-> OrUncategorized(groups[k].key), total |-> groups[k].total,
             count |-> groups[k].count]]

\* SELECT SUM(amount) ...; float(row[0] or 0)
total_spent(start_date, end_date) == SumAmount(InRange(start_date, end_date))

\* INSERT ... ON CONFLICT(category) DO UPDATE SET amount, period
set_budget(category, amount, period) ==
    IF \E k \in 1..Len(budgets) : budgets[k].category = category
    THEN [k \in 1..Len(budgets) |->
            IF budgets[k].category = category
            THEN [category |-> category, amount |-> amount, period |-> period]
            ELSE budgets[k]]
    ELSE Append(budgets, [category |-> category, amount |-> amount, period |-> period])

get_budgets == budgets

(* --------------------------- gmail_agent.py ---------------------------- *)
Today == DateOf(Clock[now])

\* the q= of messages.list
SyncQuery ==
    LET last_timestamp == get_sync_state.last_sync_timestamp
    IN  IF last_timestamp # NoTimestamp
        THEN [kind |-> "after", date |-> DateOf(last_timestamp)]
        ELSE [kind |-> "newer_than", date |-> Today]

\* Gmail search: after:D is received on or after D; newer_than:7d the last 7 days
Matches(q, m) ==
    /\ DateLE(m.received, Today)
    /\ IF q.kind = "after" THEN DateLE(q.date, m.received)
       ELSE ToOrdinal(m.received) > ToOrdinal(q.date) - FirstSweepDays

Min(a, b) == IF a <= b THEN a ELSE b

\* service.users().messages().list(q=query, maxResults=max_results): ids, newest first
ListMessages(q, maxResults) ==
    LET hits == SelectSeq(Inbox, LAMBDA m : Matches(q, m))
    IN  [k \in 1..Min(maxResults, Len(hits)) |-> hits[k].id]

\* f"{expense_data.get('notes', '')} [From: {email['sender']}]".strip(), tabulated
\* for the notes and senders of Inbox and Verdicts
NotesFrom(notes, sender) ==
    CASE notes = "order" /\ sender = "shop@example.com" -> "order [From: shop@example.com]"
      [] notes = NULL /\ sender = "shop@example.com" -> "None [From: shop@example.com]"

\* line 240 left out: the row carries no email_id
GmailExpense_no_email_id(data, id) ==
    [data EXCEPT !.notes = NotesFrom(data.notes, Msg(id).sender)]
        @@ [source |-> "gmail", email_id |-> NULL]

\* expense_data with source, email_id and notes set (lines 239-241)
GmailExpense(data, id) ==
    [data EXCEPT !.notes = NotesFrom(data.notes, Msg(id).sender)]
        @@ [source |-> "gmail", email_id |-> id]

\* the comparison written > instead of >=
IsConfidentExpense_strict(c) == c.is_expense /\ c.confidence > ConfidenceThreshold

\* classification.get('is_expense') and classification.get('confidence', 0) >= 0.7
IsConfidentExpense(c) == c.is_expense /\ c.confidence >= ConfidenceThreshold

\* expense_data and expense_data.get('amount')
HasAmount(c) ==
    /\ c.expense_data # <<>>
    /\ c.expense_data[1].amount # NoAmount
    /\ c.expense_data[1].amount # 0

NoStats == [emails_checked |-> 0, expenses_found |-> 0, expenses_saved |-> 0]

\* what a run did, kept for the properties: the sweeps that had ended when it
\* started, and the message ids it failed to fetch, saved, found duplicate or
\* failed to store
NoHist == [ended_before |-> {}, fetch_failed |-> {}, saved |-> {}, duplicate |-> {},
           storage_failed |-> {}]

\* the bot calls pull_and_process_emails() with the default
MaxResultsInputs == {DefaultMaxResults}

(* ---------------------- pull_and_process_emails ------------------------ *)
\* return emails (line 140) and stats = {...} (lines 220-224), once the loop of
\* fetch_new_emails has gone through the k messages listed
EndFetch(s, k, got) ==
    IF i[s] < k
    THEN /\ i' = [i EXCEPT ![s] = @ + 1]
         /\ UNCHANGED <<pc, stats>>
    ELSE /\ i' = [i EXCEPT ![s] = 1]
         /\ pc' = [pc EXCEPT ![s] = "classify"]
         /\ stats' = [stats EXCEPT ![s] = [emails_checked |-> Len(got),
                                           expenses_found |-> 0, expenses_saved |-> 0]]

\* service = get_gmail_service(); fetch_new_emails lines 79-95: read the cursor,
\* build the query, list the messages
StartSweep(s) ==
    /\ pc[s] = "idle"
    /\ \E n \in MaxResultsInputs :
         LET listed == ListMessages(SyncQuery, n)
         IN  /\ max_results' = [max_results EXCEPT ![s] = n]
             /\ messages' = [messages EXCEPT ![s] = listed]
             /\ IF listed = <<>>
                THEN /\ pc' = [pc EXCEPT ![s] = "classify"]
                     /\ stats' = [stats EXCEPT ![s] = NoStats]
                ELSE /\ pc' = [pc EXCEPT ![s] = "fetch"]
                     /\ UNCHANGED stats
    /\ hist' = [hist EXCEPT ![s].ended_before =
                                {t \in Sweeps : pc[t] \in {"done", "aborted"}}]
    /\ UNCHANGED <<storeVars, now, verdict, emails, i, classification, raised>>

\* get_gmail_service() raises FileNotFoundError (no credentials file), or
\* messages.list(...).execute() raises: it is outside the try of the loop
StartFails(s) ==
    /\ pc[s] = "idle"
    /\ pc' = [pc EXCEPT ![s] = "aborted"]
    /\ \E e \in {"FileNotFoundError", "HttpError"} : raised' = [raised EXCEPT ![s] = e]
    /\ hist' = [hist EXCEPT ![s].ended_before =
                                {t \in Sweeps : pc[t] \in {"done", "aborted"}}]
    /\ UNCHANGED <<storeVars, now, verdict, max_results, messages, emails, i,
                   classification, stats>>

\* one iteration of the loop of fetch_new_emails, lines 97-135
FetchMessage(s) ==
    /\ pc[s] = "fetch"
    /\ LET id  == messages[s][i[s]]
           got == IF email_already_processed(id) THEN emails[s]
                  ELSE Append(emails[s], id)
       IN  /\ emails' = [emails EXCEPT ![s] = got]
           /\ EndFetch(s, Len(messages[s]), got)
    /\ UNCHANGED <<storeVars, now, verdict, max_results, messages, classification,
                   raised, hist>>

\* the iteration raises (messages.get fails, ...): except Exception: continue
FetchFails(s) ==
    /\ pc[s] = "fetch"
    /\ hist' = [hist EXCEPT ![s].fetch_failed = @ \cup {messages[s][i[s]]}]
    /\ EndFetch(s, Len(messages[s]), emails[s])
    /\ UNCHANGED <<storeVars, now, verdict, max_results, messages, emails,
                   classification, raised>>

\* lines 228-238: classify, count, decide whether to save
ClassifyStep(s) ==
    /\ pc[s] = "classify"
    /\ i[s] <= Len(emails[s])
    /\ LET c == verdict[emails[s][i[s]]]
       IN  /\ stats' = [stats EXCEPT ![s].expenses_found =
                           IF IsConfidentExpense(c) THEN @ + 1 ELSE @]
           /\ IF IsConfidentExpense(c) /\ HasAmount(c)
              THEN /\ classification' = [classification EXCEPT ![s] = c]
                   /\ pc' = [pc EXCEPT ![s] = "save"]
                   /\ UNCHANGED i
              ELSE /\ i' = [i EXCEPT ![s] = @ + 1]
                   /\ UNCHANGED <<classification, pc>>
    /\ UNCHANGED <<storeVars, now, verdict, max_results, messages, emails, raised,
                   hist>>

\* the same lines without the try: the exception of save_expense leaves the
\* coroutine
SaveStep_unguarded(s) ==
    /\ pc[s] = "save"
    /\ \E storage \in {"ok", "error"} :
         LET id == emails[s][i[s]]
             r  == save_expense(GmailExpense(classification[s].expense_data[1], id),
                                storage)
         IN  /\ expenses' = r.rows
             /\ stats' = [stats EXCEPT ![s].expenses_saved =
                             IF r.raised = "none" THEN @ + 1 ELSE @]
             /\ hist' = [hist EXCEPT
                  ![s].saved = IF r.raised = "none" THEN @ \cup {id} ELSE @,
                  ![s].duplicate = IF r.raised = "IntegrityError" THEN @ \cup {id} ELSE @,
                  ![s].storage_failed =
                        IF r.raised = "OperationalError" THEN @ \cup {id} ELSE @]
             /\ IF r.raised = "none"
                THEN /\ pc' = [pc EXCEPT ![s] = "classify"]
                     /\ i' = [i EXCEPT ![s] = @ + 1]
                     /\ UNCHANGED raised
                ELSE /\ pc' = [pc EXCEPT ![s] = "aborted"]
                     /\ raised' = [raised EXCEPT ![s] = r.raised]
                     /\ UNCHANGED i
    /\ classification' = [classification EXCEPT ![s] = ClassificationError]
    /\ UNCHANGED <<budgets, sync_state, result, now, verdict, max_results, messages,
                   emails>>

\* lines 239-247: try: save_expense(...); saved += 1; except Exception: pass
SaveStep(s) ==
    /\ pc[s] = "save"
    /\ \E storage \in {"ok", "error"} :
         LET id == emails[s][i[s]]
             r  == save_expense(GmailExpense(classification[s].expense_data[1], id),
                                storage)
         IN  /\ expenses' = r.rows
             /\ stats' = [stats EXCEPT ![s].expenses_saved =
                             IF r.raised = "none" THEN @ + 1 ELSE @]
             /\ hist' = [hist EXCEPT
                  ![s].saved = IF r.raised = "none" THEN @ \cup {id} ELSE @,
                  ![s].duplicate = IF r.raised = "IntegrityError" THEN @ \cup {id} ELSE @,
                  ![s].storage_failed =
                        IF r.raised = "OperationalError" THEN @ \cup {id} ELSE @]
    /\ classification' = [classification EXCEPT ![s] = ClassificationError]
    /\ pc' = [pc EXCEPT ![s] = "classify"]
    /\ i' = [i EXCEPT ![s] = @ + 1]
    /\ UNCHANGED <<budgets, sync_state, result, now, verdict, max_results, messages,
                   emails, raised>>

\* lines 249-252: after the loop, set_sync_state(timestamp=now) and return stats
FinishSweep(s) ==
    /\ pc[s] = "classify"
    /\ i[s] > Len(emails[s])
    /\ sync_state' = set_sync_state(Clock[now], NULL)
    /\ pc' = [pc EXCEPT ![s] = "done"]
    /\ UNCHANGED <<expenses, budgets, result, now, verdict, max_results, messages,
                   emails, i, classification, stats, raised, hist>>

\* the cursor update placed in a finally: it runs when the sweep is abandoned too
Abandon_finally(s) ==
    /\ pc[s] \in {"fetch", "classify", "save"}
    /\ pc' = [pc EXCEPT ![s] = "aborted"]
    /\ raised' = [raised EXCEPT ![s] = "CancelledError"]
    /\ messages' = [messages EXCEPT ![s] = <<>>]
    /\ emails' = [emails EXCEPT ![s] = <<>>]
    /\ i' = [i EXCEPT ![s] = 1]
    /\ classification' = [classification EXCEPT ![s] = ClassificationError]
    /\ stats' = [stats EXCEPT ![s] = NoStats]
    /\ hist' = [hist EXCEPT ![s] = [NoHist EXCEPT !.ended_before = hist[s].ended_before,
                                                  !.saved = hist[s].saved]]
    /\ sync_state' = set_sync_state(Clock[now], NULL)
    /\ UNCHANGED <<expenses, budgets, result, now, verdict, max_results>>

\* the sweep is abandoned where it stands: the task is cancelled or the process
\* dies, and the locals of the coroutine are gone
Abandon(s) ==
    /\ pc[s] \in {"fetch", "classify", "save"}
    /\ pc' = [pc EXCEPT ![s] = "aborted"]
    /\ raised' = [raised EXCEPT ![s] = "CancelledError"]
    /\ messages' = [messages EXCEPT ![s] = <<>>]
    /\ emails' = [emails EXCEPT ![s] = <<>>]
    /\ i' = [i EXCEPT ![s] = 1]
    /\ classification' = [classification EXCEPT ![s] = ClassificationError]
    /\ stats' = [stats EXCEPT ![s] = NoStats]
    /\ hist' = [hist EXCEPT ![s] = [NoHist EXCEPT !.ended_before = hist[s].ended_before,
                                                  !.saved = hist[s].saved]]
    /\ UNCHANGED <<storeVars, now, verdict, max_results>>

\* time passes
Tick ==
    /\ now < Len(Clock)
    /\ now' = now + 1
    /\ UNCHANGED <<storeVars, verdict, sweepVars>>

(* --------------------------- expense_agent.py -------------------------- *)
\* the month of datetime.now(timezone.utc)
CurrentMonth == iso_first_last_of_month(Today[1], Today[2])

\* get_budget_status: the list behind the JSON it returns.  budget and remaining
\* are <<>> for None and <<n>> for a number; round(x, 2) leaves cents as they are
get_budget_status ==
    LET by_category == aggregate_by_field(CurrentMonth[1], CurrentMonth[2], "category")
        budgeted == {get_budgets[k].category : k \in 1..Len(get_budgets)}
        \* spent_map = {c["field"]: c["total"] ...}: a later entry replaces an earlier one
        at(category) == {k \in 1..Len(by_category) : by_category[k].field = category}
        spent(category) ==
            IF at(category) = {} THEN 0
            ELSE by_category[CHOOSE k \in at(category) :
                                \A j \in at(category) : j <= k].total
        with_budget ==
            [k \in 1..Len(get_budgets) |->
                LET b == get_budgets[k]
                IN  [category |-> b.category, budget |-> <<b.amount>>,
                     spent |-> spent(b.category),
                     remaining |-> <<b.amount - spent(b.category)>>,
                     over_budget |-> b.amount - spent(b.category) < 0]]
        others == SelectSeq(by_category, LAMBDA c : c.field \notin budgeted)
        without_budget ==
            [k \in 1..Len(others) |->
                [category |-> others[k].field, budget |-> <<>>,
                 spent |-> others[k].total, remaining |-> <<>>,
                 over_budget |-> FALSE]]
    IN  with_budget \o without_budget

\* record_expense: the dictionary it hands to save_expense
ChatExpense(amount, vendor, category, date, currency, notes) ==
    [amount |-> amount, vendor |-> vendor,
     category |-> IF category = NULL \/ category = "" THEN "Uncategorized" ELSE category,
     date |-> IF date = NoDate THEN Today ELSE date,
     currency |-> currency, notes |-> notes, source |-> "chat", email_id |-> NULL]

(* ----------------------- direct calls of the store --------------------- *)
\* arguments of record_expense: amount, vendor, category, date, currency, notes
ChatInputs ==
    {  <<10000, "Chipotle", "Food", NoDate, "USD", "lunch">>,
       <<25000, "Chipotle", "Food", <<2025, 11, 30>>, NULL, NULL>>,
       <<500, NULL, NULL, NoDate, NULL, NULL>>,
       <<1500, "Cafe", "food", <<2025, 10, 31>>, NULL, NULL>>  }

\* dictionaries a sweep hands to save_expense
EmailInputs ==
    {  GmailExpense(DataFood, "m1"),
       GmailExpense(DataBare, "m1"),
       GmailExpense([DataBare EXCEPT !.date = <<2025, 11, 3>>, !.amount = 700], "m2")  }

\* the agent calls record_expense (chat message or receipt)
RecordExpense ==
    /\ Len(expenses) < MaxRows
    /\ \E in \in ChatInputs : \E storage \in {"ok", "error"} :
         LET exp == ChatExpense(in[1], in[2], in[3], in[4], in[5], in[6])
             r   == save_expense(exp, storage)
         IN  /\ expenses' = r.rows
             /\ result' = [call |-> "save_expense", exp |-> <<exp>>, raised |-> r.raised]
    /\ UNCHANGED <<budgets, sync_state, now, verdict, sweepVars>>

\* save_expense called with an email's expense
SaveEmailExpense ==
    /\ Len(expenses) < MaxRows
    /\ \E exp \in EmailInputs : \E storage \in {"ok", "error"} :
         LET r == save_expense(exp, storage)
         IN  /\ expenses' = r.rows
             /\ result' = [call |-> "save_expense", exp |-> <<exp>>, raised |-> r.raised]
    /\ UNCHANGED <<budgets, sync_state, now, verdict, sweepVars>>

\* /set_budget <category> <amount>
SetBudget ==
    /\ \E b \in {<<"Food", 30000>>, <<"Food", 100>>, <<"Uncategorized", 100>>} :
         budgets' = set_budget(b[1], b[2], "monthly")
    /\ result' = NoResult
    /\ UNCHANGED <<expenses, sync_state, now, verdict, sweepVars>>

(* ------------------------------ ingestion ------------------------------ *)
Init ==
    /\ expenses = <<>>
    /\ budgets = <<>>
    /\ sync_state = <<>>
    /\ now = 1
    /\ verdict \in {v \in [MsgIds -> Verdicts] : \A id \in MsgIds : v[id] \in AnswersFor(id)}
    /\ pc = [s \in Sweeps |-> "idle"]
    /\ max_results = [s \in Sweeps |-> DefaultMaxResults]
    /\ messages = [s \in Sweeps |-> <<>>]
    /\ emails = [s \in Sweeps |-> <<>>]
    /\ i = [s \in Sweeps |-> 1]
    /\ classification = [s \in Sweeps |-> ClassificationError]
    /\ stats = [s \in Sweeps |-> NoStats]
    /\ raised = [s \in Sweeps |-> "none"]
    /\ result = NoResult
    /\ hist = [s \in Sweeps |-> NoHist]

SweepNext(s) ==
    \/ StartSweep(s)
    \/ StartFails(s)
    \/ FetchMessage(s)
    \/ FetchFails(s)
    \/ ClassifyStep(s)
    \/ SaveStep(s)
    \/ FinishSweep(s)
    \/ Abandon(s)

Next ==
    \/ \E s \in Sweeps : SweepNext(s)
    \/ Tick

Spec == Init /\ [][Next]_vars

(* ------------------------- the store on its own ------------------------ *)
InitStore == Init /\ verdict = [id \in MsgIds |-> ClassificationError]

NextStore ==
    \/ RecordExpense
    \/ SaveEmailExpense
    \/ SetBudget
    \/ Tick

SpecStore == InitStore /\ [][NextStore]_vars

(* ------------------------- ingestion properties ------------------------ *)
Range(seq) == {seq[k] : k \in 1..Len(seq)}

\* the emails of its batch that sweep s has passed to classify_email so far
Processed(s) ==
    IF pc[s] \in {"classify", "done"} THEN 1..(i[s] - 1)
    ELSE IF pc[s] = "save" THEN 1..i[s]
    ELSE {}

Classified(s) == {emails[s][k] : k \in Processed(s)}

\* the classifier reports an expense with confidence >= 0.7
Confident(id) == verdict[id].is_expense /\ verdict[id].confidence >= ConfidenceThreshold

\* ... and a (non-zero) amount
Qualifies(id) ==
    /\ Confident(id)
    /\ verdict[id].expense_data # <<>>
    /\ verdict[id].expense_data[1].amount \notin {NoAmount, 0}

C4_CursorOnlyAtCompletion ==
    [][ sync_state' # sync_state =>
            \E s \in Sweeps : /\ pc[s] = "classify" /\ i[s] > Len(emails[s])
                              /\ pc'[s] = "done" ]_vars

\* a sweep was abandoned after it had saved an expense, and there is no cursor
C4_Witness ==
    \E s \in Sweeps :
        /\ pc[s] = "aborted" /\ raised[s] = "CancelledError"
        /\ hist[s].saved # {}
        /\ sync_state = <<>>

\* C5 as stated: a storage failure while recording an expense ends the sweep
\* with the failure propagated to the caller (so the cursor is not advanced).
C5_StorageFailureIsFatal ==
    \A s \in Sweeps :
        hist[s].storage_failed # {} =>
            (pc[s] = "aborted" /\ raised[s] = "OperationalError")

\* C6.  Whatever the interleaving of the sweeps, a message id has at most one
\* row, and as many sweeps count it in expenses_saved as it has rows; a sweep
\* whose insert hit the duplicate has not failed, has not counted it, and goes
\* on to the end of its batch; once a completed sweep has tried to record a
\* message without a storage failure, the message has exactly one row.
C6_ConcurrentSweepsOneRow ==
    /\ \A id \in MsgIds :
          /\ Cardinality(RowsWithEmailId(id)) <= 1
          /\ Cardinality({s \in Sweeps : id \in hist[s].saved})
                = Cardinality(RowsWithEmailId(id))
    /\ \A s \in Sweeps :
          /\ pc[s] # "aborted" => stats[s].expenses_saved = Cardinality(hist[s].saved)
          /\ hist[s].duplicate # {} =>
                /\ pc[s] \in {"classify", "save", "done"}
                /\ raised[s] = "none"
                /\ hist[s].duplicate \cap hist[s].saved = {}
          /\ pc[s] = "done" =>
                \A id \in Range(emails[s]) :
                    Qualifies(id) =>
                        /\ id \in hist[s].saved \cup hist[s].duplicate
                                    \cup hist[s].storage_failed
                        /\ id \notin hist[s].storage_failed =>
                                Cardinality(RowsWithEmailId(id)) = 1

\* two sweeps raced on m2: one saved it, the other hit the duplicate and went
\* on to save m1
C6_Witness ==
    \E s \in Sweeps : \E t \in Sweeps \ {s} :
        /\ pc[s] = "done" /\ pc[t] = "done"
        /\ "m2" \in hist[s].saved
        /\ "m2" \in hist[t].duplicate
        /\ "m1" \in hist[t].saved
        /\ stats[t].expenses_saved = 1

\* C7 as stated: an email is counted in expenses_found only when it is an
\* expense with confidence >= 0.7 and an amount.
C7_FoundOnlyWithAmount ==
    \A s \in Sweeps :
        stats[s].expenses_found
            <= Cardinality({k \in Processed(s) : Qualifies(emails[s][k])})

\* C7 amended.  emails_checked is the size of the batch; expenses_found counts
\* exactly the emails reported as an expense with confidence >= 0.7, with or
\* without an amount; an email is persisted and counted in expenses_saved only
\* when, besides, its expense_data has a non-zero amount.
C7_FoundAndSaved ==
    /\ \A s \in Sweeps :
          pc[s] \in {"classify", "save", "done"} =>
            /\ stats[s].emails_checked = Len(emails[s])
            /\ stats[s].expenses_found
                  = Cardinality({k \in Processed(s) : Confident(emails[s][k])})
            /\ stats[s].expenses_saved = Cardinality(hist[s].saved)
            /\ \A id \in hist[s].saved : Qualifies(id)
    /\ \A id \in EmailIds : Qualifies(id)

\* a completed sweep found an expense without amount: found, not saved
C7_Witness ==
    \E s \in Sweeps :
        /\ pc[s] = "done"
        /\ stats[s].emails_checked = 2
        /\ stats[s].expenses_found = 2
        /\ stats[s].expenses_saved = 1
        /\ hist[s].storage_failed = {} /\ hist[s].duplicate = {}

(* --------------------------- store properties -------------------------- *)
\* bounds of the date ranges queried
QueryDates == {<<2025, 10, 31>>, <<2025, 11, 1>>, <<2025, 12, 31>>}

\* group_by arguments: the two fields, and one that falls back to category
Fields == {"category", "vendor", "date"}

\* C1.  No two rows share a non-null email_id; rows are never changed or
\* removed; a save_expense rejected for its email_id leaves exactly one row
\* with that id (the row stored first).
C1_UniqueEmailId ==
    /\ [](/\ \A id \in EmailIds : Cardinality(RowsWithEmailId(id)) = 1
          /\ result.raised = "IntegrityError" =>
                Cardinality(RowsWithEmailId(result.exp[1].email_id)) = 1)
    /\ [][ /\ Len(expenses') >= Len(expenses)
           /\ SubSeq(expenses', 1, Len(expenses)) = expenses
           /\ result'.raised = "IntegrityError" => expenses' = expenses ]_vars

\* a second, different expense with the email_id of a stored one was rejected
C1_Witness ==
    /\ result.raised = "IntegrityError"
    /\ \E k \in RowsWithEmailId(result.exp[1].email_id) :
          expenses[k].amount # result.exp[1].amount

RECURSIVE SumTotal(_)
SumTotal(groups) ==
    IF groups = <<>> THEN 0 ELSE groups[1].total + SumTotal(Tail(groups))

\* C8.  For every date range and every group_by field, the totals of the
\* groups aggregate_by_field returns add up to total_spent of the range, which
\* is 0 when no expense falls in the range.
C8_AggregateSumsToTotal ==
    \A start \in QueryDates : \A end \in QueryDates :
        /\ \A field \in Fields :
              SumTotal(aggregate_by_field(start, end, field)) = total_spent(start, end)
        /\ (\A k \in 1..Len(expenses) : ~Between(expenses[k].date, start, end))
              => total_spent(start, end) = 0

\* November holds a group of NULL category beside a named one, and there is an
\* expense outside November
C8_Witness ==
    /\ Len(aggregate_by_field(<<2025, 11, 1>>, <<2025, 11, 30>>, "category")) >= 2
    /\ \E k \in 1..Len(expenses) :
          expenses[k].category = NULL /\ Between(expenses[k].date, <<2025, 11, 1>>, <<2025, 11, 30>>)
    /\ \E k \in 1..Len(expenses) :
          ~Between(expenses[k].date, <<2025, 11, 1>>, <<2025, 11, 30>>)
    /\ total_spent(<<2025, 11, 1>>, <<2025, 11, 30>>) > 0

\* the record of get_expenses_between(start, end) for the row just saved
Returned(start, end) ==
    LET rows == get_expenses_between(start, end)
    IN  {rows[k] : k \in {j \in 1..Len(rows) : rows[j].id = Len(expenses)}}

\* C9 as stated: the record returned for the expense just saved carries every
\* recorded field, the external id included (a missing key reads as none).
C9_RoundTripAllFields ==
    (result.call = "save_expense" /\ result.raised = "none") =>
        LET exp == result.exp[1]
        IN  \A start \in QueryDates : \A end \in QueryDates :
                Between(exp.date, start, end) =>
                    \E r \in Returned(start, end) :
                        /\ r.date = exp.date /\ r.vendor = exp.vendor
                        /\ r.amount = exp.amount /\ r.currency = exp.currency
                        /\ r.category = exp.category /\ r.source = exp.source
                        /\ r.notes = exp.notes
                        /\ (IF "email_id" \in DOMAIN r THEN r.email_id ELSE NULL)
                                = exp.email_id

\* C9 amended.  After save_expense(e) succeeds, get_expenses_between over any
\* window containing e's date returns a record whose date, vendor, amount,
\* currency, category, source and notes equal what was recorded, with the
\* system-assigned id; the record has no external id field.
C9_RoundTrip ==
    (result.call = "save_expense" /\ result.raised = "none") =>
        LET exp == result.exp[1]
        IN  \A start \in QueryDates : \A end \in QueryDates :
                Between(exp.date, start, end) =>
                    /\ Cardinality(Returned(start, end)) = 1
                    /\ \A r \in Returned(start, end) :
                          /\ r.date = exp.date /\ r.vendor = exp.vendor
                          /\ r.amount = exp.amount /\ r.currency = exp.currency
                          /\ r.category = exp.category /\ r.source = exp.source
                          /\ r.notes = exp.notes
                          /\ DOMAIN r = {"id", "date", "vendor", "amount", "currency",
                                         "category", "source", "notes"}

\* an email's expense, with its external id, was saved after other rows and is
\* inside a queried window
C9_Witness ==
    /\ result.call = "save_expense" /\ result.raised = "none"
    /\ result.exp[1].email_id # NULL
    /\ Len(expenses) >= 2
    /\ Between(result.exp[1].date, <<2025, 11, 1>>, <<2025, 11, 30>>)

\* the category an expense is reported under
Label(r) == IF r.category = NULL \/ r.category = "" THEN "Uncategorized" ELSE r.category

\* C10 as stated: one entry per budgeted category and one per category with
\* spending and no budget, none for the others; spent is the sum of the month's
\* expenses of the category, remaining = budget - spent, over_budget =
\* remaining < 0; without budget, budget and remaining are none and over_budget
\* is false.
C10_BudgetStatus ==
    LET status   == get_budget_status
        month    == InRange(CurrentMonth[1], CurrentMonth[2])
        budgeted == {budgets[k].category : k \in 1..Len(budgets)}
        spending == {Label(month[k]) : k \in 1..Len(month)}
        spent(c) == SumAmount(SelectSeq(month, LAMBDA r : Label(r) = c))
        budget(c) == (CHOOSE b \in Range(budgets) : b.category = c).amount
    IN  /\ \A c \in budgeted \cup spending :
              Cardinality({k \in 1..Len(status) : status[k].category = c}) = 1
        /\ \A k \in 1..Len(status) :
              LET e == status[k]
              IN  /\ e.category \in budgeted \cup spending
                  /\ e.spent = spent(e.category)
                  /\ IF e.category \in budgeted
                     THEN /\ e.budget = <<budget(e.category)>>
                          /\ e.remaining = <<budget(e.category) - e.spent>>
                          /\ e.over_budget = (budget(e.category) - e.spent < 0)
                     ELSE /\ e.budget = <<>>
                          /\ e.remaining = <<>>
                          /\ e.over_budget = FALSE

(* ------------------------- the sync cursor alone ----------------------- *)
\* arguments of set_sync_state: None or a value
SyncTimestamps == {NoTimestamp} \cup {Clock[k] : k \in 1..Len(Clock)}
HistoryIds == {NULL, "h1", "h2"}

\* a call set_sync_state(timestamp, history_id); result keeps the arguments and
\* the table the call found
SetSyncState ==
    /\ \E timestamp \in SyncTimestamps : \E history_id \in HistoryIds :
         /\ sync_state' = set_sync_state(timestamp, history_id)
         /\ result' = [call |-> "set_sync_state",
                       exp |-> <<[timestamp |-> timestamp, history_id |-> history_id,
                                  found |-> sync_state]>>,
                       raised |-> "none"]
    /\ UNCHANGED <<expenses, budgets, now, verdict, sweepVars>>

NextSync ==
    \/ SetSyncState
    \/ Tick

SpecSync == InitStore /\ [][NextSync]_vars

\* C11.  set_sync_state replaces a cursor field only when its argument is
\* non-null and leaves it unchanged otherwise; a field that has been non-null
\* is never null again; there is at most one cursor row.
C11_CursorMerge ==
    /\ [](/\ Len(sync_state) <= 1
          /\ result.call = "set_sync_state" =>
                LET a      == result.exp[1]
                    before == IF a.found = <<>> THEN NoSyncState ELSE a.found[1]
                IN  /\ Len(sync_state) = 1
                    /\ sync_state[1].last_sync_timestamp =
                          IF a.timestamp # NoTimestamp THEN a.timestamp
                          ELSE before.last_sync_timestamp
                    /\ sync_state[1].last_history_id =
                          IF a.history_id # NULL THEN a.history_id
                          ELSE before.last_history_id)
    /\ [][ /\ sync_state # <<>> => sync_state' # <<>>
           /\ get_sync_state.last_sync_timestamp # NoTimestamp =>
                 sync_state'[1].last_sync_timestamp # NoTimestamp
           /\ get_sync_state.last_history_id # NULL =>
                 sync_state'[1].last_history_id # NULL ]_vars

\* a call with a null timestamp and a new history id found a row with both
\* fields set
C11_Witness ==
    /\ result.call = "set_sync_state"
    /\ result.exp[1].timestamp = NoTimestamp
    /\ result.exp[1].history_id = "h2"
    /\ result.exp[1].found # <<>>
    /\ result.exp[1].found[1].last_sync_timestamp # NoTimestamp
    /\ result.exp[1].found[1].last_history_id = "h1"

(* ------------------------------ dates ---------------------------------- *)
\* C12 as stated: every stored expense has a date, and the expense of an email
\* for which the classifier gave no date is dated with a day of ingestion.
C12_EveryExpenseDated ==
    \A k \in 1..Len(expenses) :
        LET r == expenses[k]
        IN  /\ r.date # NoDate
            /\ (r.email_id # NULL /\ verdict[r.email_id].expense_data[1].date = NoDate)
                  => \E t \in 1..now : r.date = DateOf(Clock[t])

(* -------------------------- category detail ---------------------------- *)
\* str.lower() on the texts of the model
Lower(text) ==
    CASE text = "Food" -> "food"
      [] text = "FOOD" -> "food"
      [] text = "Uncategorized" -> "uncategorized"
      [] text = "Cafe" -> "cafe"
      [] text = "Chipotle" -> "chipotle"
      [] OTHER -> text

\* e["category"] or ""
OrEmpty(text) == IF text = NULL THEN "" ELSE text

\* get_category_spending: the dictionary behind the JSON it returns
get_category_spending(category, year, month) ==
    LET bounds   == iso_first_last_of_month(year, month)
        rows     == get_expenses_between(bounds[1], bounds[2])
        category_lower == Lower(category)
        filtered == SelectSeq(rows, LAMBDA e : Lower(OrEmpty(e.category)) = category_lower)
        last     == SubSeq(filtered,
                           IF Len(filtered) > RecentLimit
                           THEN Len(filtered) - RecentLimit + 1 ELSE 1,
                           Len(filtered))
    IN  [category |-> category,
         period |-> <<year, month>>,
         total |-> SumAmount(filtered),
         transaction_count |-> Len(filtered),
         transactions |-> [k \in 1..Len(last) |->
                              [date |-> last[k].date, vendor |-> last[k].vendor,
                               amount |-> last[k].amount]]]

\* the categories and months asked for
CategoryQueries == {"Food", "FOOD", "food", "uncategorized"}
MonthQueries == {<<2025, 10>>, <<2025, 11>>, <<2025, 12>>}

\* C13 as stated: the category is matched without regard to case, total and
\* transaction_count cover every matching expense of the month, and the
\* transactions are the most recent ones (at most RecentLimit), the most
\* recent first.
C13_CategoryDetail ==
    \A category \in CategoryQueries : \A ym \in MonthQueries :
        LET detail == get_category_spending(category, ym[1], ym[2])
            bounds == iso_first_last_of_month(ym[1], ym[2])
            match  == SelectSeq(InRange(bounds[1], bounds[2]),
                        LAMBDA r : Lower(OrEmpty(r.category)) = Lower(category))
            listed == detail.transactions
        IN  /\ detail.total = SumAmount(match)
            /\ detail.transaction_count = Len(match)
            /\ Len(listed) = Min(RecentLimit, Len(match))
            /\ \A j \in 1..Len(listed) : \E k \in 1..Len(match) :
                   listed[j] = [date |-> match[k].date, vendor |-> match[k].vendor,
                                amount |-> match[k].amount]
            /\ \A j \in 1..(Len(listed) - 1) : DateLE(listed[j + 1].date, listed[j].date)

(* ------------------------------ reports.py ----------------------------- *)
\* plot_vendor_top: <<>> for None, else <<the rows of the data frame charted>>,
\* largest total first.  The labels of aggregate_by_field are never None, so
\* df[df['field'] != None] keeps every row.
plot_vendor_top(year, month, top_n) ==
    LET bounds    == iso_first_last_of_month(year, month)
        by_vendor == aggregate_by_field(bounds[1], bounds[2], "vendor")
        df        == SelectSeq(by_vendor, LAMBDA g : g.field # NULL)
    IN  IF by_vendor = <<>> THEN <<>>
        ELSE IF df = <<>> THEN <<>>
        ELSE << SubSeq(df, 1, Min(top_n, Len(df))) >>

\* values of top_n
TopNInputs == {1, 2, DefaultTopN}

\* C14 as stated: None when the month has no expense or only expenses without
\* vendor; otherwise at most top_n vendors, by spend, largest first.
C14_VendorRanking ==
    \A ym \in MonthQueries : \A top_n \in TopNInputs :
        LET chart  == plot_vendor_top(ym[1], ym[2], top_n)
            bounds == iso_first_last_of_month(ym[1], ym[2])
            month  == InRange(bounds[1], bounds[2])
        IN  IF month = <<>> \/ \A k \in 1..Len(month) : month[k].vendor = NULL
            THEN chart = <<>>
            ELSE /\ chart # <<>>
                 /\ Len(chart[1]) >= 1
                 /\ Len(chart[1]) <= top_n
                 /\ \A j \in 1..(Len(chart[1]) - 1) :
                       chart[1][j].total >= chart[1][j + 1].total

\* date.weekday(): Monday is 0
Weekday(d) == (ToOrdinal(d) + 6) % 7

\* d + timedelta(days=1)
NextDay(d) ==
    IF d[3] < DaysInMonth(d[1], d[2]) THEN <<d[1], d[2], d[3] + 1>>
    ELSE IF d[2] < 12 THEN <<d[1], d[2] + 1, 1>>
    ELSE <<d[1] + 1, 1, 1>>

RECURSIVE AddDays(_, _)
AddDays(d, n) == IF n = 0 THEN d ELSE AddDays(NextDay(d), n - 1)

\* the bin of resample('W-MON') a day falls in: weekly bins that end on Monday,
\* closed and labelled on the right, so the label is the first Monday on or
\* after the day
WeekBin(d) == AddDays(d, (7 - Weekday(d)) % 7)

\* one row per bin from the first to the last label, an empty bin summing to 0
RECURSIVE Resample(_, _, _)
Resample(label, last, rows) ==
    IF ToOrdinal(label) > ToOrdinal(last) THEN <<>>
    ELSE << [date |-> label,
             amount |-> SumAmount(SelectSeq(rows, LAMBDA r : WeekBin(r.date) = label))] >>
         \o Resample(AddDays(label, 7), last, rows)

\* plot_weekly_spend: <<>> for None, else <<the weekly frame charted>>
plot_weekly_spend(year, month) ==
    LET bounds == iso_first_last_of_month(year, month)
        rows   == get_expenses_between(bounds[1], bounds[2])
    IN  IF rows = <<>> THEN <<>>
        ELSE << Resample(WeekBin(rows[1].date), WeekBin(rows[Len(rows)].date), rows) >>

\* day lies in the week that starts on the Monday start
InWeekStarting(start, day) ==
    /\ ToOrdinal(start) <= ToOrdinal(day)
    /\ ToOrdinal(day) <= ToOrdinal(start) + 6

\* C15 as stated: None for a month without expenses; otherwise pairs
\* (week_start_date, amount), week_start_date the Monday that begins the week
\* of the days bucketed, amount the sum of those days, in ascending order, the
\* amounts adding up to the month total.
C15_WeeklySeries ==
    \A ym \in MonthQueries :
        LET series == plot_weekly_spend(ym[1], ym[2])
            bounds == iso_first_last_of_month(ym[1], ym[2])
            month  == InRange(bounds[1], bounds[2])
        IN  IF month = <<>> THEN series = <<>>
            ELSE /\ series # <<>>
                 /\ \A j \in 1..Len(series[1]) :
                       /\ Weekday(series[1][j].date) = 0
                       /\ series[1][j].amount =
                             SumAmount(SelectSeq(month,
                                LAMBDA r : InWeekStarting(series[1][j].date, r.date)))
                 /\ \A k \in 1..Len(month) : \E j \in 1..Len(series[1]) :
                       InWeekStarting(series[1][j].date, month[k].date)
                 /\ \A j \in 1..(Len(series[1]) - 1) :
                       ToOrdinal(series[1][j].date) < ToOrdinal(series[1][j + 1].date)
                 /\ SumAmount(series[1]) = total_spent(bounds[1], bounds[2])

(* ------------------------------ no gaps -------------------------------- *)
\* C16 as stated: once a sweep has completed and written the cursor, every
\* message of its scan window that the classifier reports as an expense with
\* confidence >= 0.7 and an amount has an expense row with its id, or is in the
\* window the next sweep will scan.
C16_NoSilentGaps ==
    \A s \in Sweeps :
        pc[s] = "done" =>
            \A id \in Range(messages[s]) :
                Qualifies(id) =>
                    \/ id \in EmailIds
                    \/ Matches(SyncQuery, Msg(id))

(* --------------------------- group labels ------------------------------ *)
\* C17 as stated: the entries of aggregate_by_field have distinct labels, and
\* the entry "Uncategorized" covers every expense of the range whose field is
\* null, empty or "Uncategorized".
C17_DistinctLabels ==
    \A start \in QueryDates : \A end \in QueryDates : \A field \in {"category", "vendor"} :
        LET groups == aggregate_by_field(start, end, field)
            rest   == SelectSeq(InRange(start, end),
                                LAMBDA r : OrUncategorized(r[field]) = "Uncategorized")
        IN  /\ \A j \in 1..Len(groups) : \A k \in 1..Len(groups) :
                  groups[j].field = groups[k].field => j = k
            /\ \A k \in 1..Len(groups) :
                  groups[k].field = "Uncategorized" =>
                      /\ groups[k].total = SumAmount(rest)
                      /\ groups[k].count = Len(rest)

====
